---- MODULE Spec2Model ----
(***************************************************************************)
(* Model of cpp/wllama-mtmd.hpp: the two action handlers action_init_mtmd  *)
(* and action_process_image, the global g_mtmd_ctx they share, and the     *)
(* parts of app_t (model, ctx, ctx_sampling) they read and write.          *)
(*                                                                         *)
(* The llama/mtmd engine is outside the file; every engine call is an      *)
(* input of the step that makes it (its status, the handle it returns,     *)
(* the token it samples).  Handlers run to completion one at a time, so a  *)
(* handler is a chain of steps guarded by pc and no other action is        *)
(* enabled while pc # "idle".                                              *)
(***************************************************************************)
EXTENDS Integers, Sequences, FiniteSets, TLC

(***************************************************************************)
(* Bounds of the model.                                                    *)
(***************************************************************************)
\* engine handles for multimodal contexts are drawn from 1..MaxHandles
MaxHandles == 2
\* mtmd_helper_get_n_tokens(chunks) ranges over 1..MaxChunkTokens
MaxChunkTokens == 2
\* the sampler may yield end-of-sequence, and a decode may fail, in the
\* first EarlySteps and in the last LateSteps iterations of the loop
EarlySteps == 2
LateSteps == 1

(***************************************************************************)
(* Program constants.                                                      *)
(***************************************************************************)
max_tokens == 1024
\* INT_MAX of the request's int fields
IntMax == 2147483647

\* std::string is a sequence of characters
image_marker ==
    <<"<", "_", "_", "i", "m", "a", "g", "e", "_", "_", ">">>
\* the marker an mtmd_context_params starts with
default_marker == image_marker
\* a marker override a host may configure
CustomMarker == <<"<", "i", "m", "g", ">">>

ErrModelNotLoaded == "Text model not loaded. Call loadModel() first."
ErrInitFailed == "Failed to initialize multimodal context"
ErrException == "Exception: "
ErrNotInitialized ==
    "Multimodal context not initialized. Call initMultimodal() first."
ErrInvalidImage == "Invalid image data or dimensions"
ErrSizeMismatch == "Image data size does not match dimensions"
ErrTokenize == "Failed to tokenize input with image"
ErrEval == "Failed to evaluate chunks"
ErrDecode == "Failed to decode token"

\* nullptr for an mtmd_context*
NullCtx == 0

(***************************************************************************)
(* Inputs.                                                                 *)
(***************************************************************************)
Markers == {<<>>, CustomMarker}
ThreadCounts == {-1, 0, 2}
InitReqs == [n_threads : ThreadCounts, image_marker : Markers]

\* (width, height) pairs: non-positive, small, and pairs whose product
\* times 3 leaves the range of int
DimPairs ==
    { <<0, 1>>, <<1, -1>>, <<1, 1>>, <<1, 2>>,
      <<65536, 65536>>, <<98304, 98304>>, <<1431655766, 1>> }
ImageLens == {0, 1, 6}
Prompts ==
    { <<"h", "i">>, <<"h", "i", " ">> \o image_marker,
      CustomMarker \o <<"h", "i">> }
ProcReqs ==
    { [image_len |-> l, width |-> d[1], height |-> d[2], prompt |-> p,
       use_cache |-> c] :
        l \in ImageLens, d \in DimPairs, p \in Prompts, c \in BOOLEAN }

\* tokens of the vocabulary; llama_token_eos(app.model) is "eos"
token_eos == "eos"
\* the token other than end-of-sequence that the sampler yields when asked
\* at pos
TokAt(pos) == IF pos % 2 = 0 THEN "ta" ELSE "tb"

VARIABLES
    app_model,        \* app.model # nullptr
    app_ctx,          \* app.ctx # nullptr
    kv_n,             \* cells 0..kv_n-1 of app.ctx's KV cache hold seq 0
    app_ctx_sampling, \* app.ctx_sampling: [live, prev]
    n_samplers,       \* samplers created and not freed
    g_ctx,            \* g_mtmd_ctx.ctx
    g_initialized,    \* g_mtmd_ctx.initialized
    mtmd_live,        \* engine contexts created and not freed
    pc,               \* position of the running handler
    req,              \* the request of the running action_process_image
    formatted_prompt, \* text.text
    chunks,           \* mtmd_helper_get_n_tokens(chunks), 0 before tokenize
    n_past,
    i,
    generated_text,
    id,               \* the token sampled last
    res,              \* the response returned last
    calls,            \* engine calls made by the handler that ran last
    init_ok           \* some action_init_mtmd has returned success

vars ==
    << app_model, app_ctx, kv_n, app_ctx_sampling, n_samplers, g_ctx,
       g_initialized, mtmd_live, pc, req, formatted_prompt, chunks, n_past,
       i, generated_text, id, res, calls, init_ok >>

hostVars == << app_model, app_ctx >>
mtmdVars == << g_ctx, g_initialized, mtmd_live >>
samplerVars == << app_ctx_sampling, n_samplers >>
locals == << req, formatted_prompt, chunks, n_past, i, generated_text, id >>

NoReq ==
    [image_len |-> 0, width |-> 0, height |-> 0, prompt |-> <<>>,
     use_cache |-> FALSE]
NoSampler == [live |-> FALSE, prev |-> <<>>]
\* the engine calls of one handler run: how many of each kind, the result
\* of mtmd_init_from_file, the req.n_threads it was called for and the
\* n_threads it was given, the number of cells a cache clear discarded, the
\* position handed to the evaluation, to the last sample and to the last
\* decode, and the last call with its status
NoCalls ==
    [free |-> 0, init |-> "none", req_threads |-> 0, n_threads |-> 0,
     tokenize |-> 0, clear |-> 0, cleared |-> 0, eval |-> 0, eval_pos |-> 0,
     sample |-> 0, sample_pos |-> 0, accept |-> 0, decode |-> 0,
     decode_pos |-> 0, last |-> "none", status |-> "none"]
NoRes == [op |-> "none", success |-> FALSE, error |-> "", result |-> <<>>]

\* glue_msg_init_mtmd_res / glue_msg_process_image_res
Res(op, success, error, result) ==
    [op |-> op, success |-> success, error |-> error, result |-> result]

(***************************************************************************)
(* 32-bit arithmetic of req.width * req.height * 3 (int operands).         *)
(***************************************************************************)
\* byte k of the two's complement representation of the int x
Byte(x, k) == (x \div (256 ^ k)) % 256

\* the low 32 bits of a * b, read as an int
Mul32(a, b) ==
    LET c0 == Byte(a, 0) * Byte(b, 0)
        c1 == Byte(a, 0) * Byte(b, 1) + Byte(a, 1) * Byte(b, 0) + c0 \div 256
        c2 == Byte(a, 0) * Byte(b, 2) + Byte(a, 1) * Byte(b, 1)
              + Byte(a, 2) * Byte(b, 0) + c1 \div 256
        c3 == Byte(a, 0) * Byte(b, 3) + Byte(a, 1) * Byte(b, 2)
              + Byte(a, 2) * Byte(b, 1) + Byte(a, 3) * Byte(b, 0)
              + c2 \div 256
        b3 == c3 % 256
        top == IF b3 >= 128 THEN b3 - 256 ELSE b3
    IN  top * 16777216 + (c2 % 256) * 65536 + (c1 % 256) * 256 + (c0 % 256)

\* for width, height > 0: width * height * 3 does not fit an int
Overflows(width, height) == height > (IntMax \div width) \div 3

\* The value of (size_t)(req.width * req.height * 3).  Signed overflow is
\* undefined: a build either keeps the low 32 bits ("wrap") or carries the
\* product out in a wider register ("widen").  A negative result stands for
\* a size_t beyond std::vector::max_size().
ImageBytes(width, height, ub) ==
    IF ~Overflows(width, height) THEN width * height * 3
    ELSE IF ub = "wrap" THEN Mul32(Mul32(width, height), 3)
    ELSE -1

UBOutcomes == {"wrap", "widen"}

\* width * height * 3 <= len over the integers, for width, height > 0
FitsExact(len, width, height) == height <= (len \div width) \div 3

(***************************************************************************)
(* Pure parts of the handlers.                                             *)
(***************************************************************************)
\* s.find(m) != std::string::npos
Contains(s, m) ==
    \E k \in 1..(Len(s) - Len(m) + 1) : SubSeq(s, k, k + Len(m) - 1) = m

\* formatted_prompt after the marker check
FormatPrompt(prompt) ==
    IF ~Contains(prompt, image_marker)
    THEN prompt \o <<" ">> \o image_marker
    ELSE prompt

\* mutant: a requested count of zero is handed on as it is
NThreads_AtLeastZero(n) == IF n >= 0 THEN n ELSE 1

\* req.n_threads > 0 ? req.n_threads : 1
NThreads(n) == IF n > 0 THEN n ELSE 1

\* params.image_marker as the engine reads it
MarkerParam(m) == IF m # <<>> THEN m ELSE default_marker

\* !app.model || !app.ctx is false
ModelAndCtxLoaded == app_model /\ app_ctx

\* mutant: the readiness check left out
ContextReady_Unchecked == TRUE

\* !g_mtmd_ctx.initialized || !g_mtmd_ctx.ctx is false
ContextReady == g_initialized /\ g_ctx # NullCtx

ImageInvalid(r) == r.image_len = 0 \/ r.width <= 0 \/ r.height <= 0

\* mutant: the loop runs one iteration too many
LoopContinues_OffByOne(k) == k <= max_tokens

\* the loop condition i < max_tokens
LoopContinues(k) == k < max_tokens

\* llama_pos n_past = 0
InitialNPast(use_cache, kv) == 0

\* mutant: the cache is never cleared
KvAfterPrepare_NoClear(use_cache, kv) == kv

\* llama_kv_cache_clear(app.ctx) unless req.use_cache
KvAfterPrepare(use_cache, kv) == IF ~use_cache THEN 0 ELSE kv

\* the cache after the engine stored n tokens at positions pos..pos+n-1
KvWrite(kv, pos, n) == IF pos + n > kv THEN pos + n ELSE kv

\* llama_token_to_piece(app.ctx, id)
Piece(t) == IF t = "ta" THEN <<"a">> ELSE <<"b", "c">>

\* mutant: the text accumulated so far is returned with the error
ResultOnDecodeFailure_Partial(text) == text

\* res.result when the decode of a token failed
ResultOnDecodeFailure(text) == <<>>

\* the iterations at which the engine may end or fail the generation
FreeIter(k) == k < EarlySteps \/ k >= max_tokens - LateSteps

(***************************************************************************)
(* The engine's multimodal contexts.                                       *)
(***************************************************************************)
Handles(live) == {c.h : c \in live}

\* mutant: the existing context is not freed
LiveAfterCleanup_Leak(live, ctx) == live

\* mtmd_free(g_mtmd_ctx.ctx) when g_mtmd_ctx.ctx is set
LiveAfterCleanup(live, ctx) == {c \in live : c.h # ctx}

\* mutant: the cleanup block leaves the flag as it was
InitializedAfterCleanup_Kept(ctx, initialized) == initialized

\* g_mtmd_ctx.initialized after the cleanup block
InitializedAfterCleanup(ctx, initialized) ==
    IF ctx # NullCtx THEN FALSE ELSE initialized

\* the handle mtmd_init_from_file returns when it builds a context
NewHandle(live) ==
    IF Handles(live) = 1..MaxHandles THEN NullCtx
    ELSE CHOOSE h \in 1..MaxHandles :
            /\ h \notin Handles(live)
            /\ \A k \in 1..MaxHandles : k \notin Handles(live) => h <= k

\* the marker of the context g_mtmd_ctx.ctx points to
LiveMarker ==
    IF \E c \in mtmd_live : c.h = g_ctx
    THEN (CHOOSE c \in mtmd_live : c.h = g_ctx).marker
    ELSE <<>>

(***************************************************************************)
(* Initial state: app_t and g_mtmd_ctx as constructed.                     *)
(***************************************************************************)
Init ==
    /\ app_model = FALSE
    /\ app_ctx = FALSE
    /\ kv_n = 0
    /\ app_ctx_sampling = NoSampler
    /\ n_samplers = 0
    /\ g_ctx = NullCtx
    /\ g_initialized = FALSE
    /\ mtmd_live = {}
    /\ pc = "idle"
    /\ req = NoReq
    /\ formatted_prompt = <<>>
    /\ chunks = 0
    /\ n_past = 0
    /\ i = 0
    /\ generated_text = <<>>
    /\ id = "none"
    /\ res = NoRes
    /\ calls = NoCalls
    /\ init_ok = FALSE

(***************************************************************************)
(* The host: loads and frees the text model between requests.              *)
(***************************************************************************)
\* a load gives a model and, unless context creation fails, a fresh
\* inference context with an empty cache
HostLoadModel(ctx_ok) ==
    /\ pc = "idle"
    /\ ~app_model
    /\ app_model' = TRUE
    /\ app_ctx' = ctx_ok
    /\ kv_n' = 0
    /\ UNCHANGED << samplerVars, mtmdVars, pc, locals, res, calls, init_ok >>

HostFreeModel ==
    /\ pc = "idle"
    /\ app_model
    /\ app_model' = FALSE
    /\ app_ctx' = FALSE
    /\ kv_n' = 0
    /\ UNCHANGED << samplerVars, mtmdVars, pc, locals, res, calls, init_ok >>

(***************************************************************************)
(* action_init_mtmd.  out is what mtmd_init_from_file does: it returns a   *)
(* context ("ctx"), returns nullptr ("null") or throws ("throw").          *)
(***************************************************************************)
InitOutcomes == {"ctx", "null", "throw"}

action_init_mtmd(r, out) ==
    /\ pc = "idle"
    /\ UNCHANGED << hostVars, kv_n, samplerVars, pc, locals >>
    /\ IF ~app_model
       THEN /\ res' = Res("init", FALSE, ErrModelNotLoaded, <<>>)
            /\ calls' = NoCalls
            /\ UNCHANGED << mtmdVars, init_ok >>
       ELSE LET live1 == LiveAfterCleanup(mtmd_live, g_ctx)
                ctx1 == NullCtx
                init1 == InitializedAfterCleanup(g_ctx, g_initialized)
                h == IF out = "ctx" THEN NewHandle(live1) ELSE NullCtx
                got == IF out = "ctx" /\ h = NullCtx THEN "null" ELSE out
            IN  /\ calls' = [NoCalls EXCEPT
                              !.free = Cardinality(mtmd_live \ live1),
                              !.init = got,
                              !.req_threads = r.n_threads,
                              !.n_threads = NThreads(r.n_threads),
                              !.last = "init",
                              !.status = got]
                /\ CASE got = "throw" ->
                          /\ g_ctx' = ctx1
                          /\ g_initialized' = init1
                          /\ mtmd_live' = live1
                          /\ res' = Res("init", FALSE, ErrException, <<>>)
                          /\ UNCHANGED init_ok
                     [] got = "null" ->
                          /\ g_ctx' = NullCtx
                          /\ g_initialized' = init1
                          /\ mtmd_live' = live1
                          /\ res' = Res("init", FALSE, ErrInitFailed, <<>>)
                          /\ UNCHANGED init_ok
                     [] OTHER ->
                          /\ g_ctx' = h
                          /\ g_initialized' = TRUE
                          /\ mtmd_live' = live1 \cup
                                {[h |-> h,
                                  marker |-> MarkerParam(r.image_marker)]}
                          /\ res' = Res("init", TRUE, "", <<>>)
                          /\ init_ok' = TRUE

(***************************************************************************)
(* action_process_image, one action per step.  res, calls and the locals   *)
(* of the generation phase keep what a call left until the next call       *)
(* starts; the fields of the request, and text.text, are emptied once the  *)
(* code has read them for the last time.                                   *)
(***************************************************************************)
\* mutant: the error is not stored in the response
ReturnError_NoMessage(error, result) ==
    /\ res' = Res("process", FALSE, "", result)
    /\ pc' = "idle"
    /\ req' = NoReq
    /\ formatted_prompt' = <<>>
    /\ UNCHANGED mtmdVars

\* mutant: an error return marks the multimodal context as not initialized
ReturnError_Teardown(error, result) ==
    /\ res' = Res("process", FALSE, error, result)
    /\ pc' = "idle"
    /\ req' = NoReq
    /\ formatted_prompt' = <<>>
    /\ g_initialized' = FALSE
    /\ UNCHANGED << g_ctx, mtmd_live >>

\* return action_handler<glue_msg_process_image_res>(res) with res.error set;
\* no error path of action_process_image writes g_mtmd_ctx
ReturnError(error, result) ==
    /\ res' = Res("process", FALSE, error, result)
    /\ pc' = "idle"
    /\ req' = NoReq
    /\ formatted_prompt' = <<>>
    /\ UNCHANGED mtmdVars

\* the precondition checks
process_image_begin(r) ==
    /\ pc = "idle"
    /\ calls' = NoCalls
    /\ chunks' = 0
    /\ n_past' = 0
    /\ i' = 0
    /\ generated_text' = <<>>
    /\ id' = "none"
    /\ UNCHANGED << hostVars, kv_n, samplerVars, init_ok >>
    /\ IF ~ModelAndCtxLoaded THEN ReturnError(ErrModelNotLoaded, <<>>)
       ELSE IF ~ContextReady THEN ReturnError(ErrNotInitialized, <<>>)
       ELSE IF ImageInvalid(r) THEN ReturnError(ErrInvalidImage, <<>>)
       ELSE /\ pc' = "bitmap"
            /\ req' = r
            /\ res' = Res("process", FALSE, "", <<>>)
            /\ UNCHANGED << formatted_prompt, mtmdVars >>

\* bitmap.data.resize(n), the size check and the memcpy
process_image_bitmap(ub) ==
    /\ pc = "bitmap"
    /\ UNCHANGED << hostVars, kv_n, samplerVars, init_ok, calls,
                    chunks, n_past, i, generated_text, id >>
    /\ LET n == ImageBytes(req.width, req.height, ub)
       IN  IF n < 0 THEN ReturnError(ErrException, <<>>)
           ELSE IF req.image_len >= n
           THEN /\ pc' = "format"
                /\ req' = [req EXCEPT !.image_len = 0, !.width = 0,
                                      !.height = 0]
                /\ UNCHANGED << formatted_prompt, res, mtmdVars >>
           ELSE ReturnError(ErrSizeMismatch, <<>>)

\* formatted_prompt and text.text
process_image_format ==
    /\ pc = "format"
    /\ formatted_prompt' = FormatPrompt(req.prompt)
    /\ pc' = "tokenize"
    /\ UNCHANGED << req, hostVars, kv_n, samplerVars, mtmdVars, init_ok, calls,
                    chunks, n_past, i, generated_text, id, res >>

EngineOutcomes == {"ok", "fail", "throw"}

\* mutant: the cache is cleared before the text is tokenized
ClearAfterTokenize_Hoisted == FALSE

\* if (!req.use_cache) llama_kv_cache_clear(app.ctx) stands after the
\* status test of mtmd_tokenize and its return
ClearAfterTokenize == TRUE

\* mtmd_tokenize(g_mtmd_ctx.ctx, chunks, text, bitmaps)
process_image_tokenize(out, n) ==
    /\ pc = "tokenize"
    /\ calls' = [calls EXCEPT !.tokenize = @ + 1, !.last = "tokenize",
                              !.status = out]
    /\ kv_n' = IF ClearAfterTokenize THEN kv_n
               ELSE KvAfterPrepare(req.use_cache, kv_n)
    /\ UNCHANGED << hostVars, samplerVars, init_ok, n_past, i,
                    generated_text, id >>
    /\ CASE out = "throw" ->
              ReturnError(ErrException, <<>>) /\ UNCHANGED chunks
         [] out = "fail" ->
              ReturnError(ErrTokenize, <<>>) /\ UNCHANGED chunks
         [] OTHER ->
              /\ chunks' = n
              /\ formatted_prompt' = <<>>
              /\ req' = [req EXCEPT !.prompt = <<>>]
              /\ pc' = "prepare"
              /\ UNCHANGED << res, mtmdVars >>

\* the cache clear and llama_pos n_past = 0
process_image_prepare ==
    /\ pc = "prepare"
    /\ kv_n' = IF ClearAfterTokenize THEN KvAfterPrepare(req.use_cache, kv_n)
               ELSE kv_n
    /\ calls' = IF req.use_cache THEN calls
                ELSE [calls EXCEPT !.clear = @ + 1, !.cleared = kv_n,
                                   !.last = "clear", !.status = "ok"]
    /\ n_past' = InitialNPast(req.use_cache, kv_n)
    /\ pc' = "eval"
    /\ UNCHANGED << hostVars, samplerVars, mtmdVars, init_ok, req,
                    formatted_prompt, chunks, i, generated_text, id, res >>

\* n_past after the chunks were evaluated
NPastAfterEval(pos, n) == pos + n

\* mutant: the status of mtmd_helper_eval is not looked at
EvalFailureReturns_Ignored == FALSE

\* if (eval_result != 0) is tested and its body returns
EvalFailureReturns == TRUE

\* mtmd_helper_eval(..., n_past, 0, n_batch) and the n_past update.  The
\* last branch is the code after the status test; a failed evaluation
\* stores nothing in the cache.
process_image_eval(out) ==
    /\ pc = "eval"
    /\ calls' = [calls EXCEPT !.eval = @ + 1, !.eval_pos = n_past,
                              !.last = "eval", !.status = out]
    /\ UNCHANGED << hostVars, samplerVars, init_ok, chunks, i,
                    generated_text, id >>
    /\ CASE out = "throw" ->
              ReturnError(ErrException, <<>>) /\ UNCHANGED << kv_n, n_past >>
         [] out = "fail" /\ EvalFailureReturns ->
              ReturnError(ErrEval, <<>>) /\ UNCHANGED << kv_n, n_past >>
         [] OTHER ->
              /\ kv_n' = IF out = "ok" THEN KvWrite(kv_n, n_past, chunks)
                         ELSE kv_n
              /\ n_past' = NPastAfterEval(n_past, chunks)
              /\ pc' = "sampler"
              /\ req' = NoReq
              /\ UNCHANGED << formatted_prompt, res, mtmdVars >>

\* mutant: a sampler that is already there is kept and used again
FreshSampler_Reused(old) ==
    IF old.live THEN old ELSE [live |-> TRUE, prev |-> <<>>]

\* app.ctx_sampling = wcommon_sampler_init(app.model, sparams): a new
\* sampler, with no accepted token, whatever the old one held
FreshSampler(old) == [live |-> TRUE, prev |-> <<>>]

\* wcommon_sampler_free / wcommon_sampler_init and the loop's locals
process_image_sampler ==
    /\ pc = "sampler"
    /\ n_samplers' = (IF app_ctx_sampling.live THEN n_samplers - 1
                      ELSE n_samplers) + 1
    /\ app_ctx_sampling' = FreshSampler(app_ctx_sampling)
    /\ generated_text' = <<>>
    /\ i' = 0
    /\ pc' = "loop"
    /\ UNCHANGED << hostVars, kv_n, mtmdVars, init_ok, calls, req,
                    formatted_prompt, chunks, n_past, id, res >>

\* mutant: the piece is put in front of the text
AppendPiece_InFront(text, tok) == Piece(tok) \o text

\* generated_text += wcommon_token_to_piece(app.ctx, id)
AppendPiece(text, tok) == text \o Piece(tok)

\* one wcommon_sampler_sample(app.ctx_sampling, app.ctx, n_past), the
\* end-of-sequence test, the piece and wcommon_sampler_accept
process_image_sample(tok) ==
    /\ pc = "loop"
    /\ LoopContinues(i)
    /\ tok = token_eos => FreeIter(i)
    /\ id' = tok
    /\ UNCHANGED << hostVars, kv_n, mtmdVars, init_ok, req, formatted_prompt,
                    chunks, n_past, i, res, n_samplers >>
    /\ IF tok = token_eos
       THEN /\ calls' = [calls EXCEPT !.sample = @ + 1,
                                      !.sample_pos = n_past,
                                      !.last = "sample", !.status = "ok"]
            /\ pc' = "finish"
            /\ UNCHANGED << generated_text, app_ctx_sampling >>
       ELSE /\ calls' = [calls EXCEPT !.sample = @ + 1,
                                      !.sample_pos = n_past,
                                      !.accept = @ + 1,
                                      !.last = "sample", !.status = "ok"]
            /\ generated_text' = AppendPiece(generated_text, tok)
            /\ app_ctx_sampling' =
                  [app_ctx_sampling EXCEPT !.prev = Append(@, tok)]
            /\ pc' = "decode"

\* where the body of if (llama_decode(...)) leaves the handler: at its
\* return, pc "idle"
AfterDecodeFailure == "idle"

\* mutant: the cursor stays where it was after a decode
NPastAfterDecode_Stuck(pos) == pos

\* n_past++
NPastAfterDecode(pos) == pos + 1

\* llama_batch_clear, llama_batch_add(id, n_past, {0}) and llama_decode,
\* a C call that reports its failures by its status
process_image_decode(out) ==
    /\ pc = "decode"
    /\ out # "ok" => FreeIter(i)
    /\ calls' = [calls EXCEPT !.decode = @ + 1, !.decode_pos = n_past,
                              !.last = "decode", !.status = out]
    /\ UNCHANGED << hostVars, samplerVars, init_ok, chunks,
                    generated_text, id >>
    /\ CASE out = "fail" /\ AfterDecodeFailure = "idle" ->
              /\ ReturnError(ErrDecode, ResultOnDecodeFailure(generated_text))
              /\ UNCHANGED << kv_n, n_past, i >>
         [] OTHER ->
              /\ kv_n' = IF out = "ok" THEN KvWrite(kv_n, n_past, 1) ELSE kv_n
              /\ n_past' = NPastAfterDecode(n_past)
              /\ i' = i + 1
              /\ pc' = "loop"
              /\ UNCHANGED << req, formatted_prompt, res, mtmdVars >>

\* i < max_tokens is false
process_image_bound ==
    /\ pc = "loop"
    /\ ~LoopContinues(i)
    /\ pc' = "finish"
    /\ UNCHANGED << hostVars, kv_n, samplerVars, mtmdVars, init_ok, calls,
                    locals, res >>

\* res.success = true; res.result = generated_text; return
process_image_finish ==
    /\ pc = "finish"
    /\ res' = Res("process", TRUE, "", generated_text)
    /\ pc' = "idle"
    /\ UNCHANGED << hostVars, kv_n, samplerVars, mtmdVars, init_ok, calls,
                    locals >>

Next ==
    \/ \E ctx_ok \in BOOLEAN : HostLoadModel(ctx_ok)
    \/ HostFreeModel
    \/ \E r \in InitReqs, out \in InitOutcomes : action_init_mtmd(r, out)
    \/ \E r \in ProcReqs : process_image_begin(r)
    \/ \E ub \in UBOutcomes : process_image_bitmap(ub)
    \/ process_image_format
    \/ \E out \in EngineOutcomes, n \in 1..MaxChunkTokens :
          process_image_tokenize(out, n)
    \/ process_image_prepare
    \/ \E out \in EngineOutcomes : process_image_eval(out)
    \/ process_image_sampler
    \/ \E tok \in {token_eos, TokAt(n_past)} : process_image_sample(tok)
    \/ \E out \in {"ok", "fail"} : process_image_decode(out)
    \/ process_image_bound
    \/ process_image_finish

Spec == Init /\ [][Next]_vars

\* every step of a running action_process_image: a handler that has begun
\* runs to its return
process_image_step ==
    \/ \E ub \in UBOutcomes : process_image_bitmap(ub)
    \/ process_image_format
    \/ \E out \in EngineOutcomes, n \in 1..MaxChunkTokens :
          process_image_tokenize(out, n)
    \/ process_image_prepare
    \/ \E out \in EngineOutcomes : process_image_eval(out)
    \/ process_image_sampler
    \/ \E tok \in {token_eos, TokAt(n_past)} : process_image_sample(tok)
    \/ \E out \in {"ok", "fail"} : process_image_decode(out)
    \/ process_image_bound
    \/ process_image_finish

FairSpec == Spec /\ WF_vars(process_image_step)

(***************************************************************************)
(* Properties.                                                             *)
(***************************************************************************)
\* a step that is the start of an action_process_image call
ProcessCall ==
    /\ pc = "idle"
    /\ res'.op = "process"
    /\ UNCHANGED hostVars

\* C1: with the model and the inference context loaded and no successful
\* initMultimodal so far, a processImage call returns at once with
\* success=false and the "not initialized" error, whatever the request
\* holds, and makes no engine call.
C1_NotInitializedBeforeInit ==
    [][ (ProcessCall /\ ModelAndCtxLoaded /\ ~init_ok) =>
          /\ pc' = "idle"
          /\ res' = Res("process", FALSE, ErrNotInitialized, <<>>)
          /\ calls' = NoCalls ]_vars

C1_Witness ==
    /\ pc = "idle"
    /\ ModelAndCtxLoaded
    /\ ~init_ok
    /\ res = Res("process", FALSE, ErrNotInitialized, <<>>)

\* C2: for a request past the precondition checks, the bitmap is built if
\* and only if the image holds at least width*height*3 bytes, the product
\* taken over the integers; otherwise the response is the size-mismatch
\* error and nothing was tokenized.
C2_BitmapIffExactFit ==
    [][ pc = "bitmap" =>
          /\ (pc' = "format") <=>
                FitsExact(req.image_len, req.width, req.height)
          /\ pc' # "format" =>
                /\ res' = Res("process", FALSE, ErrSizeMismatch, <<>>)
                /\ calls'.tokenize = 0 ]_vars

\* how a processImage call that has returned left the generation loop
ExitEos == res.success /\ id = token_eos /\ i < max_tokens
ExitBound ==
    res.success /\ id # token_eos /\ i = max_tokens
        /\ calls.sample = max_tokens
ExitFailed == ~res.success /\ res.error # ""

\* C3: every processImage call returns, whatever the sampler yields; a
\* call samples at most 1024 tokens and submits at most 1024 decodes, and
\* it ends for exactly one reason: end-of-sequence, the iteration bound,
\* or a failure.
C3_BoundedGeneration ==
    /\ [](calls.sample <= max_tokens /\ calls.decode <= max_tokens)
    /\ []((pc = "idle" /\ res.op = "process") =>
            /\ ExitEos \/ ExitBound \/ ExitFailed
            /\ ~(ExitEos /\ ExitBound))
    /\ (pc # "idle") ~> (pc = "idle")

C3_Witness ==
    /\ pc = "idle"
    /\ ExitBound
    /\ calls.decode = max_tokens

\* C4: a decode that reports a non-zero status ends the call at once: the
\* response is success=false with the decode error and an empty result,
\* and no token is sampled or decoded after it.
C4_DecodeFailureDiscardsText ==
    (calls.last = "decode" /\ calls.status = "fail") =>
        /\ pc = "idle"
        /\ res = Res("process", FALSE, ErrDecode, <<>>)
        /\ calls.sample = calls.decode

C4_Witness ==
    /\ calls.last = "decode"
    /\ calls.status = "fail"
    /\ calls.decode >= 2
    /\ Len(generated_text) >= 2
    /\ res.result = <<>>

\* C5: at most one engine context is live at any time; after a successful
\* initMultimodal exactly one is, the one g_mtmd_ctx points to; and an
\* initMultimodal that reached the engine succeeds exactly when the engine
\* returned a context.
C5_OneLiveContext ==
    /\ Cardinality(mtmd_live) <= 1
    /\ (res.op = "init" /\ res.success) =>
          (Handles(mtmd_live) = {g_ctx} /\ g_ctx # NullCtx)
    /\ (res.op = "init" /\ calls.init # "none") =>
          (res.success <=> calls.init = "ctx")

C5_Witness ==
    /\ res.op = "init"
    /\ res.success
    /\ calls.free = 1
    /\ Cardinality(mtmd_live) = 1

\* C6: when a processImage call with the cache-reuse flag false is about to
\* evaluate its chunks, the cache has been cleared by that call and holds
\* nothing, and the position the evaluation starts at is 0.
C6_NoCacheStartsEmpty ==
    (pc = "eval" /\ ~req.use_cache) =>
        /\ calls.clear = 1
        /\ kv_n = 0
        /\ n_past = 0

C6_Witness ==
    /\ pc = "eval"
    /\ ~req.use_cache
    /\ calls.cleared > 0
    /\ kv_n = 0
    /\ n_past = 0

\* C7: when a processImage call with the cache-reuse flag true is about to
\* evaluate its chunks, the cache has not been cleared and the evaluation
\* starts at the position where the cache's contents end, not at 0.
C7_CacheReuseContinues ==
    (pc = "eval" /\ req.use_cache) =>
        /\ calls.clear = 0
        /\ n_past = kv_n

\* C8: after an initMultimodal that returned success=false, for whichever
\* reason, the multimodal context is not ready.
C8_FailedInitNotReady ==
    (pc = "idle" /\ res.op = "init" /\ ~res.success) => ~ContextReady

\* C9: a chunk evaluation that reports a non-zero status ends the call with
\* success=false, the evaluation error and an empty result; no token is
\* sampled, accepted or decoded and n_past is not advanced.
C9_EvalFailureGeneratesNothing ==
    [][ (pc = "eval" /\ calls'.last = "eval" /\ calls'.status = "fail") =>
          /\ pc' = "idle"
          /\ res' = Res("process", FALSE, ErrEval, <<>>)
          /\ n_past' = n_past
          /\ calls'.sample = 0
          /\ calls'.accept = 0
          /\ calls'.decode = 0 ]_vars

C9_Witness ==
    /\ pc = "idle"
    /\ calls.last = "eval"
    /\ calls.status = "fail"
    /\ res = Res("process", FALSE, ErrEval, <<>>)
    /\ chunks > 0
    /\ n_past = 0

\* C10: the text handed to the tokenizer contains the marker configured for
\* the live multimodal context: the prompt itself when it contains that
\* marker, else the prompt, a space and that marker.
C10_TextHoldsConfiguredMarker ==
    pc = "tokenize" =>
        /\ Contains(formatted_prompt, LiveMarker)
        /\ formatted_prompt =
              IF Contains(req.prompt, LiveMarker) THEN req.prompt
              ELSE req.prompt \o <<" ">> \o LiveMarker

\* a handler has returned and res is its response
Returned == pc = "idle" /\ res.op # "none"

\* C11: every response of initMultimodal and processImage has success=true
\* exactly when its error string is empty, and a failed one carries the one
\* message of the step that failed first: the step the engine-call log of
\* the call ends with, or a precondition when no engine call was made.
C11_OneErrorOfFirstFailure ==
    Returned =>
        /\ res.success <=> res.error = ""
        /\ (res.op = "init" /\ ~res.success) =>
              res.error = CASE calls.init = "none" -> ErrModelNotLoaded
                            [] calls.init = "null" -> ErrInitFailed
                            [] OTHER -> ErrException
        /\ (res.op = "init" /\ res.success) => calls.init = "ctx"
        /\ (res.op = "process" /\ ~res.success) =>
              IF calls.status = "fail"
              THEN res.error = CASE calls.last = "tokenize" -> ErrTokenize
                                 [] calls.last = "eval" -> ErrEval
                                 [] calls.last = "decode" -> ErrDecode
                                 [] OTHER -> ""
              ELSE IF calls.status = "throw" THEN res.error = ErrException
              ELSE /\ calls = NoCalls
                   /\ res.error \in {ErrModelNotLoaded, ErrNotInitialized,
                                     ErrInvalidImage, ErrSizeMismatch,
                                     ErrException}
        /\ (res.op = "process" /\ res.success) =>
              calls.status = "ok" /\ calls.last \in {"sample", "decode"}

C11_Witness ==
    /\ Returned
    /\ res = Res("process", FALSE, ErrTokenize, <<>>)
    /\ calls.last = "tokenize"
    /\ calls.status = "fail"
    /\ calls.eval = 0

\* C12: no step of a processImage call, whether the call succeeds or fails
\* at any step (a caught exception included), changes the multimodal
\* context: the handle, the initialized flag and the engine's live contexts
\* stay as they were, so a call that finds the context ready leaves it ready
\* for the next call.
C12_ProcessKeepsContext ==
    [][ (ProcessCall \/ pc # "idle") =>
          /\ g_ctx' = g_ctx
          /\ g_initialized' = g_initialized
          /\ mtmd_live' = mtmd_live
          /\ ContextReady' <=> ContextReady ]_vars

C12_Witness ==
    /\ Returned
    /\ res.error = ErrDecode
    /\ calls.status = "fail"
    /\ g_initialized
    /\ g_ctx # NullCtx
    /\ g_ctx \in Handles(mtmd_live)

\* C13: initMultimodal hands the engine the thread count 1 when the
\* requested count is zero or negative and the requested count itself when
\* it is positive; a request with thread count 0, made with the text model
\* loaded and answered by the engine with a context, returns success=true.
C13_ThreadCountCoercion ==
    (res.op = "init" /\ calls.init # "none") =>
        /\ calls.req_threads <= 0 => calls.n_threads = 1
        /\ calls.req_threads > 0 => calls.n_threads = calls.req_threads
        /\ (calls.req_threads = 0 /\ calls.init = "ctx") =>
              /\ res.success
              /\ res.error = ""
              /\ ContextReady

C13_Witness ==
    /\ res = Res("init", TRUE, "", <<>>)
    /\ calls.init = "ctx"
    /\ calls.req_threads = 0
    /\ calls.n_threads = 1

\* the pieces of toks[lo..hi], one after the other
RECURSIVE PiecesOf(_, _, _)
PiecesOf(toks, lo, hi) ==
    IF lo > hi THEN <<>>
    ELSE IF lo = hi THEN Piece(toks[lo])
    ELSE LET mid == (lo + hi) \div 2
         IN  PiecesOf(toks, lo, mid) \o PiecesOf(toks, mid + 1, hi)

\* C14: a processImage call whose evaluation and decodes all succeed
\* returns success=true with, as text, the pieces of the tokens sampled
\* before the first end-of-sequence token (of all 1024 sampled tokens when
\* there is none), in sampling order.  The end-of-sequence token adds no
\* piece, is not accepted by the sampler and is not decoded; stopping at
\* the bound of 1024 tokens is a success.
C14_TextIsSampledPieces ==
    (Returned /\ res.op = "process" /\ calls.eval = 1
        /\ calls.status = "ok") =>
        LET toks == app_ctx_sampling.prev
        IN  /\ res.success
            /\ res.error = ""
            /\ res.result = PiecesOf(toks, 1, Len(toks))
            /\ Len(toks) = calls.accept
            /\ calls.decode = calls.accept
            /\ \A j \in 1..Len(toks) : toks[j] # token_eos
            /\ IF id = token_eos
               THEN /\ calls.sample = calls.accept + 1
                    /\ calls.accept < max_tokens
               ELSE /\ calls.sample = max_tokens
                    /\ calls.accept = max_tokens

C14_Witness ==
    /\ Returned
    /\ res.op = "process"
    /\ res.success
    /\ id = token_eos
    /\ calls.accept > 1
    /\ Len(res.result) > calls.accept

\* the position of the i-th generated token: the cursor the chunks were
\* evaluated at, plus their tokens, plus i
GenPos == calls.eval_pos + chunks + i

\* C15: inside one processImage call the cursor n_past never decreases.
\* With s the cursor handed to the evaluation and c the tokens of the
\* chunks, the i-th generated token (from 0) is sampled at position s+c+i
\* and submitted for decoding at position s+c+i; the cursor grows by exactly
\* one after each successful decode and stays where it is after a failed
\* decode and after an end-of-sequence token.
C15_CursorTracksGeneration ==
    /\ [](/\ pc \in {"sampler", "loop", "decode", "finish"} =>
                n_past = GenPos
          /\ (pc = "decode" \/ (pc = "finish" /\ id = token_eos)) =>
                calls.sample_pos = GenPos
          /\ pc = "decode" => id = TokAt(GenPos)
          /\ (pc = "loop" /\ i > 0) => calls.decode_pos = GenPos - 1
          /\ (pc \in {"loop", "decode", "finish"}) => i = calls.decode
          /\ (Returned /\ calls.last = "decode" /\ calls.status = "fail") =>
                /\ i = calls.decode - 1
                /\ calls.decode_pos = GenPos
                /\ n_past = GenPos)
    /\ [][ /\ pc # "idle" => n_past' >= n_past
           /\ (pc = "decode" /\ calls'.status = "ok") =>
                 n_past' = n_past + 1 /\ i' = i + 1
           /\ (pc = "decode" /\ calls'.status = "fail") =>
                 n_past' = n_past /\ i' = i
           /\ (pc = "loop" /\ id' = token_eos) =>
                 n_past' = n_past /\ i' = i /\ calls'.decode = calls.decode
         ]_vars

C15_Witness ==
    /\ Returned
    /\ res.error = ErrDecode
    /\ calls.status = "fail"
    /\ i > 1
    /\ calls.decode = i + 1
    /\ calls.decode_pos = chunks + i
    /\ n_past = chunks + i

\* the tokens accepted so far in the running call, in order: the tokens
\* sampled at the positions after the chunks
AcceptedInCall ==
    [j \in 1..calls.accept |-> TokAt(calls.eval_pos + chunks + j - 1)]

\* C16: sampler state does not outlive a call.  From the first sample of a
\* call on, the sampler is one created in this call after the earlier one
\* was freed: at most one sampler is live at any time, and at every sample
\* step its history is exactly the tokens accepted earlier in the same
\* call, in order.
C16_FreshSamplerPerCall ==
    /\ n_samplers <= 1
    /\ app_ctx_sampling.live <=> n_samplers = 1
    /\ pc \in {"loop", "decode", "finish"} =>
          /\ app_ctx_sampling.live
          /\ app_ctx_sampling.prev = AcceptedInCall

C16_Witness ==
    /\ pc = "loop"
    /\ calls.accept = 0
    /\ calls.sample = 0
    /\ kv_n > chunks
    /\ app_ctx_sampling = [live |-> TRUE, prev |-> <<>>]
    /\ n_samplers = 1

\* the response of a processImage call that ends at a failed check, having
\* made exactly the engine calls log
FailsWith(error, log) ==
    /\ pc' = "idle"
    /\ res' = Res("process", FALSE, error, <<>>)
    /\ calls' = log

\* C17: processImage reports the first check that fails, in the order
\* model not loaded, context not initialized, invalid image data, image
\* size mismatch, tokenization failed, evaluation failed, decode failed,
\* and performs none of the steps after it; a request that is invalid in
\* several ways gets the earliest of its errors.
C17_FirstFailingCheckInOrder ==
    [][ /\ ProcessCall =>
              IF ~ModelAndCtxLoaded
              THEN FailsWith(ErrModelNotLoaded, NoCalls)
              ELSE IF ~ContextReady
              THEN FailsWith(ErrNotInitialized, NoCalls)
              ELSE IF pc' = "idle"
              THEN FailsWith(ErrInvalidImage, NoCalls)
              ELSE pc' = "bitmap" /\ ~ImageInvalid(req')
        /\ pc = "bitmap" =>
              IF ~FitsExact(req.image_len, req.width, req.height)
              THEN FailsWith(ErrSizeMismatch, NoCalls)
              ELSE pc' = "format"
        /\ (pc = "tokenize" /\ calls'.status = "fail") =>
              /\ FailsWith(ErrTokenize,
                           [NoCalls EXCEPT !.tokenize = 1,
                                           !.last = "tokenize",
                                           !.status = "fail"])
              /\ kv_n' = kv_n
        /\ (pc = "eval" /\ calls'.status = "fail") =>
              /\ pc' = "idle"
              /\ res' = Res("process", FALSE, ErrEval, <<>>)
              /\ calls'.sample = 0
              /\ calls'.decode = 0
              /\ samplerVars' = samplerVars
        /\ (pc = "decode" /\ calls'.status = "fail") =>
              /\ pc' = "idle"
              /\ res'.error = ErrDecode
              /\ ~res'.success
              /\ calls'.sample = calls.sample
      ]_vars

\* C18: when an initMultimodal or processImage call returns, the
\* initialized flag is true exactly when the handle is non-null.  When the
\* engine returns a null context during initialization, the response is
\* the initialization failure, the handle is null, the flag is false, and
\* a context that was live before the call has been freed: the engine holds
\* no context any more.
C18_FlagIffHandle ==
    /\ g_initialized <=> g_ctx # NullCtx
    /\ (res.op = "init" /\ calls.init = "null") =>
          /\ res = Res("init", FALSE, ErrInitFailed, <<>>)
          /\ g_ctx = NullCtx
          /\ ~g_initialized
          /\ mtmd_live = {}

C18_Witness ==
    /\ res = Res("init", FALSE, ErrInitFailed, <<>>)
    /\ calls.init = "null"
    /\ calls.free = 1
    /\ init_ok
    /\ g_ctx = NullCtx
    /\ ~g_initialized
    /\ mtmd_live = {}

\* C19: the steps a processImage call takes up to and including the
\* tokenization leave the attention cache and the sampler as they were, so
\* a call that fails with model not loaded, context not initialized,
\* invalid image data, image size mismatch or tokenization failed changes
\* neither, even with use_cache false.  The cache is cleared only after the
\* tokenization has succeeded and the sampler is replaced only after the
\* evaluation has succeeded.
C19_EarlyFailureKeepsCacheAndSampler ==
    [][ /\ (ProcessCall \/ pc \in {"bitmap", "format", "tokenize"}) =>
              /\ kv_n' = kv_n
              /\ app_ctx_sampling' = app_ctx_sampling
              /\ n_samplers' = n_samplers
              /\ calls'.clear = 0
        /\ calls'.clear > calls.clear =>
              /\ pc = "prepare"
              /\ calls.tokenize = 1
              /\ calls.status = "ok"
              /\ chunks > 0
        /\ samplerVars' # samplerVars =>
              /\ pc \in {"sampler", "loop"}
              /\ calls.eval = 1
              /\ calls.status = "ok"
      ]_vars

C19_Witness ==
    /\ Returned
    /\ res = Res("process", FALSE, ErrTokenize, <<>>)
    /\ calls.clear = 0
    /\ kv_n > 0
    /\ app_ctx_sampling.live
    /\ app_ctx_sampling.prev # <<>>

====
